---- MODULE Spec2Model ----
(***************************************************************************)
(* Audio routing engine of spelling-bee-cheats: AudioPassthrough           *)
(* (src/audio/audio.py) supervised by AudioRoutingWorker                   *)
(* (src/window/window.py).                                                 *)
(*                                                                         *)
(* Threads: the controlling (GUI) thread, thread 0; one routing thread per *)
(* accepted start_routing call, threads 1..MaxStarts, each of which        *)
(* creates its own AudioPassthrough instance (session) with one            *)
(* input_worker and one output_worker thread.                              *)
(*                                                                         *)
(* Time is abstracted: a join(timeout=...) returns when the joined thread  *)
(* has ended, or by timeout while the joined thread sits in a blocking     *)
(* device call (the only places where a thread can spend a second).        *)
(*                                                                         *)
(* A run is driven either through the methods of AudioRoutingWorker or,    *)
(* in one workload, from the window (AudioGUI: Start clicks, the volume    *)
(* slider, process_messages).                                              *)
(*                                                                         *)
(* The conversions of input_worker (DspSpec, LenSpec), the speech path of  *)
(* src/main.py (SinkSpec) and the device catalogue (CatalogSpec) are       *)
(* specified on their own.                                                 *)
(***************************************************************************)
EXTENDS Integers, Sequences, FiniteSets, TLC

(***************************************************************************)
(* Bounds of the model.                                                    *)
(***************************************************************************)
\* chunk_size of AudioPassthrough.__init__ (default 1024), scaled down
ChunkSize == 2
\* buffer_size of AudioPassthrough.__init__ (default 10), scaled down
BufferSize == 2
\* number of blocks the input devices deliver in a run with one session
MaxFrames == 3
\* number of start_routing calls made in a run with several sessions
MaxStarts == 2
\* number of stop_routing calls made after a start_routing call, or before the first
MaxStops == 2
\* device calls on an open stream that fail in a run with one session
MaxFaults == 2
\* longest block handed to the sample rate conversion on its own
MaxLen == 12
\* chunks the capture device of the speech path delivers in a run
MaxChunks == 4
\* input overflows the input device reports in one run
MaxOverflows == 1

INT16_MIN == -32768
INT16_MAX == 32767

None == 0
Sessions == 1..MaxStarts
GuiThread == 0
Threads == {GuiThread} \cup Sessions

(***************************************************************************)
(* Signal conversions of input_worker (pure functions on int16 arrays).    *)
(***************************************************************************)
\* float -> integer conversion of astype: truncation toward zero of a / b
TruncDiv(a, b) == IF a >= 0 THEN a \div b ELSE -((-a) \div b)

\* the low 16 bits of x, read as a signed 16-bit value
Wrap16(x) == ((x + 32768) % 65536) - 32768

\* x limited to the 16-bit range
Clip16(x) == IF x > INT16_MAX THEN INT16_MAX ELSE IF x < INT16_MIN THEN INT16_MIN ELSE x

\* The C conversion of an out-of-range float to int16 is undefined: a
\* conversion either keeps the low 16 bits or saturates.
CastModes == {"wrap", "saturate"}

AsTypeInt16(x, mode) ==
    IF x >= INT16_MIN /\ x <= INT16_MAX THEN x
    ELSE IF mode = "wrap" THEN Wrap16(x) ELSE Clip16(x)

\* volume multipliers are rationals num/den
Vol(n, d) == [num |-> n, den |-> d]

\* (audio_data * volume_multiplier).astype(np.int16), applied when != 1.0
ScaleSample(s, v, mode) ==
    IF v.num = v.den THEN s
    ELSE AsTypeInt16(TruncDiv(s * v.num, v.den), mode)

ApplyVolume(data, v, mode) ==
    [i \in 1..Len(data) |-> ScaleSample(data[i], v, mode)]

\* the sum of each pair, not halved (the conversion of a faulty variant)
StereoSum(data) ==
    [i \in 1..(Len(data) \div 2) |-> data[2 * i - 1] + data[2 * i]]

\* np.mean(audio_data.reshape(-1, 2), axis=1).astype(np.int16)
StereoToMono(data) ==
    [i \in 1..(Len(data) \div 2) |-> TruncDiv(data[2 * i - 1] + data[2 * i], 2)]

\* np.repeat(audio_data, 2)
MonoToStereo(data) ==
    [i \in 1..(2 * Len(data)) |-> data[(i + 1) \div 2]]

Remix(data, inCh, outCh) ==
    IF inCh = 2 /\ outCh = 1 THEN StereoToMono(data)
    ELSE IF inCh = 1 /\ outCh = 2 THEN MonoToStereo(data)
    ELSE data

\* np.interp(np.linspace(0, n, m), np.arange(n), fp).astype(np.int16):
\* query point j (0-based) is j*n/(m-1); beyond n-1 np.interp holds fp[n-1]
InterpAt(fp, n, m, j) ==
    IF m = 1 \/ j = 0 THEN fp[1]
    ELSE LET k == (j * n) \div (m - 1)
             r == (j * n) % (m - 1)
         IN  IF k >= n - 1 THEN fp[n]
             ELSE TruncDiv(fp[k + 1] * (m - 1) + (fp[k + 2] - fp[k + 1]) * r, m - 1)

Interp(fp, m) == [j \in 1..m |-> InterpAt(fp, Len(fp), m, j - 1)]

\* the length scaled by the inverse ratio (the conversion of a faulty variant)
NewLengthInverse(len, inRate, outRate) == (len * inRate) \div outRate

\* int(len(audio_data) * ratio), ratio = sample_rate / input_rate; for the
\* rates and lengths used here the float product truncates to the same
\* integer as the exact quotient
NewLength(len, inRate, outRate) == (len * outRate) \div inRate

Channel(data, c) == [i \in 1..(Len(data) \div 2) |-> data[2 * (i - 1) + c]]

Resample(data, inRate, outRate, outCh) ==
    IF inRate = outRate THEN data
    ELSE LET newLen == NewLength(Len(data), inRate, outRate)
         IN  IF outCh = 2 /\ Len(data) % 2 = 0
             THEN LET l == Interp(Channel(data, 1), newLen \div 2)
                      r == Interp(Channel(data, 2), newLen \div 2)
                  IN  [i \in 1..(2 * (newLen \div 2)) |->
                          IF i % 2 = 1 THEN l[(i + 1) \div 2] ELSE r[i \div 2]]
             ELSE Interp(data, newLen)


(***************************************************************************)
(* The audio subsystem the program runs against: the devices that          *)
(* get_device_info_generator enumerates, in enumeration order.  Names are  *)
(* sequences of characters.  rates: the sample rates at which the device   *)
(* can be opened; the last device is busy and refuses every open.          *)
(***************************************************************************)
Dev(n, inCh, outCh, rate, lb, rs) ==
    [name |-> n, maxInputChannels |-> inCh, maxOutputChannels |-> outCh,
     defaultSampleRate |-> rate, isLoopbackDevice |-> lb, rates |-> rs]

DeviceList ==
    << Dev(<<"M", "i", "c">>, 1, 0, 48000, FALSE, {48000}),
       Dev(<<"S", "p", "k">>, 0, 2, 48000, FALSE, {48000}),
       Dev(<<"H", "p">>, 0, 2, 44100, FALSE, {44100}),
       Dev(<<"S", "p", "k", "L">>, 2, 0, 48000, TRUE, {16000, 44100, 48000}),
       Dev(<<"B", "t">>, 0, 2, 16000, FALSE, {}),
       Dev(<<"H", "p", "L">>, 0, 0, 44100, TRUE, {44100}) >>

DeviceIds == 1..Len(DeviceList)

\* str.lower() on the alphabet of the device names
Lower(c) ==
    CASE c = "M" -> "m" [] c = "I" -> "i" [] c = "C" -> "c" [] c = "S" -> "s"
      [] c = "P" -> "p" [] c = "K" -> "k" [] c = "H" -> "h" [] c = "L" -> "l"
      [] c = "B" -> "b" [] c = "T" -> "t"
      [] OTHER -> c

LowerStr(str) == [i \in 1..Len(str) |-> Lower(str[i])]

\* Python's `a in b` on strings
Contains(b, a) ==
    \E k \in 0..(Len(b) - Len(a)) : \A i \in 1..Len(a) : b[k + i] = a[i]

NameMatches(fragment, d) == Contains(LowerStr(DeviceList[d].name), LowerStr(fragment))

\* the first enumerated device when nothing matches (the lookup of a faulty
\* variant)
FirstOrDefault(S) == IF S = {} THEN 1 ELSE CHOOSE d \in S : \A e \in S : d <= e

FirstOf(S) == IF S = {} THEN None ELSE CHOOSE d \in S : \A e \in S : d <= e

\* AudioPassthrough.find_device_by_name; the result is a device id or None
find_device_by_name(name_fragment, device_type) ==
    IF device_type = "output"
    THEN FirstOf({d \in DeviceIds : DeviceList[d].maxOutputChannels > 0
                                    /\ NameMatches(name_fragment, d)})
    ELSE IF device_type = "input"
    THEN FirstOf({d \in DeviceIds : DeviceList[d].maxInputChannels > 0
                                    /\ NameMatches(name_fragment, d)})
    ELSE IF device_type = "loopback"
    THEN FirstOf({d \in DeviceIds : DeviceList[d].isLoopbackDevice
                                    /\ NameMatches(name_fragment, d)})
    ELSE None

Min(a, b) == IF a <= b THEN a ELSE b

\* The arguments of one Start: name fragments, input type, volume
StartArgs(inName, outName, inType, vol) ==
    [input_device_name |-> inName, output_device_name |-> outName,
     input_device_type |-> inType, volume_multiplier |-> vol]

\* the calls of start_routing a run draws from: microphone to speaker at
\* double volume, speaker loopback to headphones at half volume (44100 Hz,
\* stereo to stereo), microphone to headphones (the input device refuses
\* the rate), an input device that does not exist, an output device that
\* does not exist, an input fragment that names an output device only, and
\* speaker loopback to a busy output device (the input opens, the output
\* does not), and the headphones' loopback, which reports no input channel,
\* to the headphones
RaceChoices == { StartArgs(<<"m", "i", "c">>, <<"S", "P", "K">>, "input", Vol(2, 1)) }

StartChoices ==
    { StartArgs(<<"m", "i", "c">>, <<"S", "P", "K">>, "input", Vol(2, 1)),
      StartArgs(<<"s", "p", "k">>, <<"h", "p">>, "loopback", Vol(1, 2)),
      StartArgs(<<"m", "i", "c">>, <<"H", "p">>, "input", Vol(1, 1)),
      StartArgs(<<"x">>, <<"s", "p", "k">>, "input", Vol(1, 1)),
      StartArgs(<<"m", "i", "c">>, <<"x">>, "input", Vol(1, 1)),
      StartArgs(<<"h", "p">>, <<"s", "p", "k">>, "input", Vol(1, 1)),
      StartArgs(<<"s", "p", "k">>, <<"b", "t">>, "loopback", Vol(1, 1)),
      StartArgs(<<"h", "p", "l">>, <<"h", "p">>, "loopback", Vol(1, 1)) }


\* A run is one of the workloads below.  The first: one start_routing call,
\* with stop_routing calls before and after it, on devices that deliver
\* blocks and may fail.  The second: several start_routing calls and no
\* stop_routing call, on devices that deliver nothing and do not fail.
DeviceWorkload ==
    [starts |-> 1, stops |-> MaxStops, frames |-> MaxFrames, faults |-> MaxFaults,
     overflows |-> 0, gui |-> FALSE, history |-> FALSE, choices |-> StartChoices]

RaceWorkload ==
    [starts |-> MaxStarts, stops |-> 0, frames |-> 0, faults |-> 0,
     overflows |-> 0, gui |-> FALSE, history |-> FALSE, choices |-> RaceChoices]

\* and a third: one start_routing call and one stop_routing call on an input
\* device that delivers blocks and reports input overflows; the blocks
\* written to the output device are recorded
OverflowWorkload ==
    [starts |-> 1, stops |-> 1, frames |-> MaxFrames, faults |-> 0,
     overflows |-> MaxOverflows, gui |-> FALSE, history |-> TRUE, choices |-> RaceChoices]

\* the positions of the volume slider
Volumes == {Vol(1, 1), Vol(2, 1)}

\* the calls AudioGUI.start_routing makes: microphone to speaker at the
\* volume the slider shows
GuiChoices ==
    { StartArgs(<<"m", "i", "c">>, <<"S", "P", "K">>, "input", v) : v \in Volumes }

\* and a fourth, in which the calls come from the window (window.py 603-647):
\* two clicks on Start, moves of the volume slider, and the window taking
\* the messages off message_queue; Stop is not clicked
GuiWorkload ==
    [starts |-> 2, stops |-> 0, frames |-> 0, faults |-> 0,
     overflows |-> 0, gui |-> TRUE, history |-> FALSE, choices |-> GuiChoices]

Workloads == {DeviceWorkload, RaceWorkload, OverflowWorkload, GuiWorkload}

\* the calls of the workload below: microphone to speaker, and an input
\* device that does not exist
ExitChoices ==
    { StartArgs(<<"m", "i", "c">>, <<"S", "P", "K">>, "input", Vol(2, 1)),
      StartArgs(<<"x">>, <<"s", "p", "k">>, "input", Vol(1, 1)) }

\* and a fifth: two start_routing calls, of which either may fail, and no
\* stop_routing call, on devices that deliver nothing and do not fail
ExitWorkload ==
    [starts |-> 2, stops |-> 0, frames |-> 0, faults |-> 0,
     overflows |-> 0, gui |-> FALSE, history |-> FALSE, choices |-> ExitChoices]

(***************************************************************************)
(* State.  An AudioPassthrough instance is named by the routing thread     *)
(* that created it; a stream object, and a pair of worker threads, by the  *)
(* routing thread whose start_passthrough call opened or started it.       *)
(***************************************************************************)
VARIABLES
    \* AudioRoutingWorker (window.py)
    is_running,       \* AudioRoutingWorker.is_running
    passthrough,      \* AudioRoutingWorker.passthrough: an instance or None
    worker_thread,    \* AudioRoutingWorker.worker_thread: a routing thread or None
    stop_event,       \* AudioRoutingWorker.stop_event
    message_queue,    \* how many messages of each kind were put on message_queue
    pending,          \* the messages on message_queue the GUI has not taken yet, in order
    \* threads 0 (controlling) and 1..MaxStarts (routing threads)
    pc,               \* the statement each thread is at
    sp,               \* its position inside stop_passthrough, "none" outside
    spq,              \* the instance its stop_passthrough call works on
    joining,          \* the thread object the controlling thread has called join on
    args,             \* the arguments each routing thread was started with
    inst,             \* the instance each routing thread called start_passthrough on
    \* AudioPassthrough instances (audio.py)
    pt_is_running,    \* AudioPassthrough.is_running
    input_stream,     \* AudioPassthrough.input_stream: a stream object or None
    output_stream,
    input_thread,     \* AudioPassthrough.input_thread: a worker or None
    output_thread,
    audio_queue,      \* AudioPassthrough.audio_queue
    \* stream objects
    inStream,         \* "none" | "open" | "closed"
    outStream,
    testStream,       \* the local test_output of start_passthrough, per routing thread
    catalog,          \* one call of find_device_by_name and of list_devices
    overflows,        \* reads that have met an input overflow so far
    written,          \* per output_worker: the blocks from the queue it has written
    is_routing,       \* AudioGUI.is_routing
    volume_var,       \* AudioGUI.volume_var, the value of the volume slider
    \* worker threads and the locals of start_passthrough they capture
    fmt,
    inPc, inData,     \* input_worker: position, local audio_data
    outPc, outData,   \* output_worker: position, the block it gives to write
    \* environment
    framesRead,       \* per input_worker: blocks its device has delivered so far
    started,          \* start_routing calls made so far
    consumed,         \* per instance: a block has left audio_queue at the consumer's end
    stops,            \* stop_routing calls made since the last start_routing call
    faults,           \* device calls on an open stream that have failed so far
    limits,           \* the workload of this run
    dsp,              \* one block on its way through the conversions of input_worker
    \* the speech path (virtual_speaker.py, speech_recognizer.py, main.py)
    vs_running,       \* VirtualSpeaker.running
    vs_audio_queue,   \* VirtualSpeaker.audio_queue: chunks from the device callback
    sr_running,       \* SpeechRecognizer.running
    sr_audio_queue,   \* SpeechRecognizer.audio_queue: chunks handed to process_audio
    text_queue,       \* how many texts were put on text_queue
    capPc, capChunk,  \* the thread of start_capture: position, the chunk it holds
    recPc,            \* the thread of start_recognition: position
    captured,         \* chunks the device callback has delivered so far
    forwarded,        \* process_audio calls that have returned so far
    halted            \* which of stop_capture and stop_recognition have been called

ctlVars == <<is_running, passthrough, worker_thread, stop_event, message_queue, pending>>
thrVars == <<pc, sp, spq, joining, args, inst>>
ptVars == <<pt_is_running, input_stream, output_stream, input_thread, output_thread,
            audio_queue>>
strVars == <<inStream, outStream>>
inVars == <<inPc, inData>>
outVars == <<outPc, outData>>
sinkVars == <<vs_running, vs_audio_queue, sr_running, sr_audio_queue, text_queue, capPc,
              capChunk, recPc, captured, forwarded, halted>>
auxVars == <<testStream, catalog, overflows, written, is_routing, volume_var>>
envVars == <<framesRead, consumed, started, stops, faults, limits, dsp, sinkVars, auxVars>>
vars == <<ctlVars, thrVars, ptVars, strVars, fmt, inVars, outVars, envVars>>

NoFrame == [id |-> 0, samples |-> <<>>]
NoFmt == [input_rate |-> 0, sample_rate |-> 0, input_channels |-> 0,
          output_channels |-> 0, input_device |-> None, output_device |-> None]
NoArgs == StartArgs(<<>>, <<>>, "", Vol(1, 1))

\* the messages put on message_queue, by kind; "warning" stands for a
\* message of kind "log" whose text begins "Warning:"
Kinds == {"status", "log", "warning", "success", "error", "stopped"}

\* message_queue.put of each message of msgs, in order
PostAll(msgs) ==
    /\ message_queue' =
           [k \in Kinds |-> message_queue[k] + Cardinality({i \in 1..Len(msgs) : msgs[i] = k})]
    /\ pending' = IF limits.gui THEN pending \o msgs ELSE pending

Post(kind) == PostAll(<<kind>>)

NoDsp == [stage |-> "none"]
NoCatalog == [stage |-> "none"]

\* AudioRoutingWorker.__init__ (window.py 19-25) and AudioGUI.__init__:
\* nothing runs, no session exists
RoutingStart ==
    /\ is_running = FALSE
    /\ passthrough = None
    /\ worker_thread = None
    /\ stop_event = FALSE
    /\ message_queue = [k \in Kinds |-> 0]
    /\ pc = [t \in Threads |-> IF t = GuiThread THEN "idle" ELSE "unborn"]
    /\ sp = [t \in Threads |-> "none"]
    /\ spq = [t \in Threads |-> None]
    /\ joining = None
    /\ args = [t \in Sessions |-> NoArgs]
    /\ inst = [t \in Sessions |-> None]
    /\ pt_is_running = [q \in Sessions |-> FALSE]
    /\ input_stream = [q \in Sessions |-> None]
    /\ output_stream = [q \in Sessions |-> None]
    /\ input_thread = [q \in Sessions |-> None]
    /\ output_thread = [q \in Sessions |-> None]
    /\ audio_queue = [q \in Sessions |-> <<>>]
    /\ inStream = [t \in Sessions |-> "none"]
    /\ outStream = [t \in Sessions |-> "none"]
    /\ testStream = [t \in Sessions |-> "none"]
    /\ overflows = 0
    /\ written = [w \in Sessions |-> <<>>]
    /\ pending = <<>>
    /\ is_routing = FALSE
    /\ volume_var = Vol(1, 1)
    /\ fmt = [t \in Sessions |-> NoFmt]
    /\ inPc = [t \in Sessions |-> "none"]
    /\ inData = [t \in Sessions |-> NoFrame]
    /\ outPc = [t \in Sessions |-> "none"]
    /\ outData = [t \in Sessions |-> NoFrame]
    /\ framesRead = [w \in Sessions |-> 0]
    /\ consumed = [q \in Sessions |-> FALSE]
    /\ started = 0
    /\ stops = 0
    /\ faults = 0

RoutingInit == RoutingStart /\ limits \in Workloads

\* VirtualSpeaker.__init__ and SpeechRecognizer.__init__; main.py has not
\* started the two threads yet
SinkInit ==
    /\ vs_running = FALSE
    /\ vs_audio_queue = <<>>
    /\ sr_running = FALSE
    /\ sr_audio_queue = <<>>
    /\ text_queue = 0
    /\ capPc = "unborn"
    /\ capChunk = 0
    /\ recPc = "unborn"
    /\ captured = 0
    /\ forwarded = 0
    /\ halted = [capture |-> FALSE, recognition |-> FALSE]

Init == RoutingInit /\ dsp = NoDsp /\ catalog = NoCatalog /\ SinkInit

\* the state of the stream object an attribute refers to
StreamState(ref, streams) == IF ref = None THEN "none" ELSE streams[ref]

(***************************************************************************)
(* input_worker of start_passthrough (audio.py 177-238); worker w runs on  *)
(* instance inst[w].  The local audio_data is kept only while the worker   *)
(* is between the failed put and the retry.                                *)
(***************************************************************************)
\* the block the input device delivers as its n-th: chunk_size frames
DeviceBlock(n, channels) ==
    [i \in 1..(ChunkSize * channels) |-> IF i % 2 = 1 THEN 10 * n + i ELSE -(10 * n + i)]

\* a multiplier read from the slider at every block (the worker of a faulty
\* variant)
volume_from_slider(w) == volume_var

\* the volume_multiplier input_worker works with: the argument of the
\* start_passthrough call it was defined in (audio.py 73, 184-185)
volume_multiplier(w) == args[w].volume_multiplier

\* audio.py 181-223: volume, channel conversion, sample rate conversion
Process(data, w, mode) ==
    LET scaled == ApplyVolume(data, volume_multiplier(w), mode)
        mixed == Remix(scaled, fmt[w].input_channels, fmt[w].output_channels)
    IN  Resample(mixed, fmt[w].input_rate, fmt[w].sample_rate, fmt[w].output_channels)

\* the n-th block worker w puts on the queue
FrameOf(w, n, mode) ==
    [id |-> n, samples |-> Process(DeviceBlock(n, fmt[w].input_channels), w, mode)]

RECURSIVE SumTo(_, _)
SumTo(f, n) == IF n = 0 THEN 0 ELSE f[n] + SumTo(f, n - 1)

\* blocks delivered so far by all input devices
TotalRead == SumTo(framesRead, MaxStarts)

\* a loop test that never fails (the worker of a faulty variant)
LoopAlways(q) == TRUE

\* audio.py 178, 242: `while self.is_running` of a worker on instance q
LoopTest(q) == pt_is_running[q]

\* audio.py 178-180: the loop test, then the call of input_stream.read; a
\* read of a stream that is not open raises at once
InLoop(w) ==
    /\ inPc[w] = "loop"
    /\ inPc' = [inPc EXCEPT ![w] =
                  IF ~LoopTest(inst[w]) THEN "done"
                  ELSE IF StreamState(input_stream[inst[w]], inStream) = "open"
                       THEN "reading" ELSE "failed"]
    /\ UNCHANGED <<inData, ctlVars, thrVars, ptVars, strVars, fmt, outVars, envVars>>

\* a put that never raises queue.Full (the queue of a faulty variant)
PutAlways(q) == TRUE

\* queue.Queue.put(item, block=False): TRUE when the item is appended, FALSE
\* for queue.Full
PutFits(q) == Len(q) < BufferSize

\* Stream.read with its default exception_on_overflow=True
RaiseOnOverflow == TRUE

\* audio.py 180: read(self.chunk_size, exception_on_overflow=False)
exception_on_overflow == FALSE

\* audio.py 180-228: input_stream.read returns one block (a stream closed
\* under the call may still deliver); the device may report an input
\* overflow with it, which raises only when exception_on_overflow is set;
\* the block is converted and audio_queue.put(..., block=False) is tried
InRead(w) ==
    /\ inPc[w] = "reading"
    /\ TotalRead < limits.frames
    /\ framesRead' = [framesRead EXCEPT ![w] = @ + 1]
    /\ \E overflowed \in {FALSE} \cup {o \in {TRUE} : overflows < limits.overflows} :
       /\ overflows' = overflows + IF overflowed THEN 1 ELSE 0
       /\ IF overflowed /\ exception_on_overflow
          THEN /\ inPc' = [inPc EXCEPT ![w] = "failed"]
               /\ UNCHANGED <<inData, audio_queue>>
          ELSE \E mode \in CastModes :
               LET frame == FrameOf(w, framesRead[w] + 1, mode)
               IN  IF PutFits(audio_queue[inst[w]])
                   THEN /\ audio_queue' = [audio_queue EXCEPT ![inst[w]] = Append(@, frame)]
                        /\ inPc' = [inPc EXCEPT ![w] = "loop"]
                        /\ UNCHANGED inData
                   ELSE /\ inData' = [inData EXCEPT ![w] = frame]
                        /\ inPc' = [inPc EXCEPT ![w] = "evict"]
                        /\ UNCHANGED audio_queue
    /\ UNCHANGED <<consumed, started, stops, faults, limits, dsp, sinkVars, testStream,
                   catalog, written, is_routing, volume_var, pt_is_running,
                   input_stream, output_stream, input_thread, output_thread, ctlVars,
                   thrVars, strVars, fmt, outVars>>

\* audio.py 180, 236-238: input_stream.read raises (the device failed, or
\* the stream was closed under the call): "Input error", break
InReadError(w) ==
    /\ inPc[w] = "reading"
    /\ IF StreamState(input_stream[inst[w]], inStream) = "open"
       THEN faults < limits.faults /\ faults' = faults + 1
       ELSE UNCHANGED faults
    /\ inPc' = [inPc EXCEPT ![w] = "failed"]
    /\ UNCHANGED <<inData, ctlVars, thrVars, ptVars, strVars, fmt, outVars, framesRead,
                   consumed, started, stops, limits, dsp, sinkVars, auxVars>>

\* a removal at the wrong end (the queue of a faulty variant)
EvictNewest(q) == SubSeq(q, 1, Len(q) - 1)

\* what get_nowait leaves in the queue
Evicted(q) == Tail(q)

\* a get that waits for an item (queue.Queue.get with block=True)
GetWaits(q) == q # <<>>

\* queue.Queue.get_nowait: the call comes back at once, with an item or
\* with queue.Empty
GetNoWait(q) == TRUE

\* audio.py 230-234: after queue.Full, audio_queue.get_nowait(); queue.Empty
\* is passed over and the block is dropped
InEvict(w) ==
    /\ inPc[w] = "evict"
    /\ GetNoWait(audio_queue[inst[w]])
    /\ IF audio_queue[inst[w]] # <<>>
       THEN /\ audio_queue' = [audio_queue EXCEPT ![inst[w]] = Evicted(@)]
            /\ inPc' = [inPc EXCEPT ![w] = "reput"]
            /\ UNCHANGED inData
       ELSE /\ inPc' = [inPc EXCEPT ![w] = "loop"]
            /\ inData' = [inData EXCEPT ![w] = NoFrame]
            /\ UNCHANGED audio_queue
    /\ UNCHANGED <<pt_is_running, input_stream, output_stream, input_thread,
                   output_thread, ctlVars, thrVars, strVars, fmt, outVars, envVars>>

\* audio.py 232, 236-238: the second put; a queue.Full here is not caught
\* by `except queue.Empty` and ends the worker
InReput(w) ==
    /\ inPc[w] = "reput"
    /\ IF PutFits(audio_queue[inst[w]])
       THEN /\ audio_queue' = [audio_queue EXCEPT ![inst[w]] = Append(@, inData[w])]
            /\ inPc' = [inPc EXCEPT ![w] = "loop"]
       ELSE /\ inPc' = [inPc EXCEPT ![w] = "failed"]
            /\ UNCHANGED audio_queue
    /\ inData' = [inData EXCEPT ![w] = NoFrame]
    /\ UNCHANGED <<pt_is_running, input_stream, output_stream, input_thread,
                   output_thread, ctlVars, thrVars, strVars, fmt, outVars, envVars>>

input_worker(w) ==
    \/ InLoop(w)
    \/ InRead(w)
    \/ InReadError(w)
    \/ InEvict(w)
    \/ InReput(w)

(***************************************************************************)
(* output_worker of start_passthrough (audio.py 241-253).                  *)
(***************************************************************************)
\* silence sized for one channel (the block of a faulty variant)
SilenceMono(w) == [i \in 1..ChunkSize |-> 0]

\* np.zeros(self.chunk_size * output_channels, dtype=np.int16)
Silence(w) == [i \in 1..(ChunkSize * fmt[w].output_channels) |-> 0]

\* a get that leaves the block on the queue (the queue of a faulty variant)
Peeked(q) == q

\* what audio_queue.get leaves on the queue
Taken(q) == Tail(q)

\* audio.py 242-249: the loop test, then audio_queue.get(timeout=0.1), which
\* returns the oldest block or raises queue.Empty when the queue stayed empty
OutGet(w) ==
    /\ outPc[w] = "loop"
    /\ IF ~LoopTest(inst[w])
       THEN /\ outPc' = [outPc EXCEPT ![w] = "done"]
            /\ UNCHANGED <<outData, audio_queue, consumed>>
       ELSE IF audio_queue[inst[w]] # <<>>
       THEN /\ outData' = [outData EXCEPT ![w] = Head(audio_queue[inst[w]])]
            /\ audio_queue' = [audio_queue EXCEPT ![inst[w]] = Taken(@)]
            /\ consumed' = [consumed EXCEPT ![inst[w]] = TRUE]
            /\ outPc' = [outPc EXCEPT ![w] = "write"]
       ELSE /\ outData' = [outData EXCEPT ![w] = [id |-> 0, samples |-> Silence(w)]]
            /\ outPc' = [outPc EXCEPT ![w] = "silence"]
            /\ UNCHANGED <<audio_queue, consumed>>
    /\ UNCHANGED <<pt_is_running, input_stream, output_stream, input_thread,
                   output_thread, ctlVars, thrVars, strVars, fmt, inVars, framesRead,
                   started, stops, faults, limits, dsp, sinkVars, auxVars>>

\* audio.py 246, 250: output_stream.write accepts the block
OutWrite(w) ==
    /\ outPc[w] \in {"write", "silence"}
    /\ StreamState(output_stream[inst[w]], outStream) = "open"
    /\ outPc' = [outPc EXCEPT ![w] = "loop"]
    /\ written' = [written EXCEPT ![w] = IF outPc[w] = "write" /\ limits.history
                                         THEN Append(@, outData[w]) ELSE @]
    /\ UNCHANGED <<outData, ctlVars, thrVars, ptVars, strVars, fmt, inVars, framesRead,
                   consumed, started, stops, faults, limits, dsp, sinkVars, testStream,
                   catalog, overflows, is_routing, volume_var>>

\* audio.py 246, 250-253: output_stream.write raises (the device failed or
\* the stream is closed); in either place the thread ends
OutWriteError(w) ==
    /\ outPc[w] \in {"write", "silence"}
    /\ IF StreamState(output_stream[inst[w]], outStream) = "open"
       THEN faults < limits.faults /\ faults' = faults + 1
       ELSE UNCHANGED faults
    /\ outPc' = [outPc EXCEPT ![w] = "failed"]
    /\ UNCHANGED <<outData, ctlVars, thrVars, ptVars, strVars, fmt, inVars, framesRead,
                   consumed, started, stops, limits, dsp, sinkVars, auxVars>>

output_worker(w) ==
    \/ OutGet(w)
    \/ OutWrite(w)
    \/ OutWriteError(w)

(***************************************************************************)
(* AudioPassthrough.stop_passthrough (audio.py 270-296), run by thread t   *)
(* on instance spq[t].  stop_stream of a stream that is already closed     *)
(* raises OSError, which leaves the call at line 276.                      *)
(***************************************************************************)
\* a close that leaves the stream as it is (the teardown of a faulty variant)
KeepRef(ref, streams) == streams

CloseRef(ref, streams) ==
    IF ref = None THEN streams ELSE [streams EXCEPT ![ref] = "closed"]

\* a worker that sits in a blocking device call
InBlocked(w) == inPc[w] = "reading"
OutBlocked(w) == outPc[w] \in {"write", "silence"}

InAlive(w) == inPc[w] \notin {"none", "done", "failed"}
OutAlive(w) == outPc[w] \notin {"none", "done", "failed"}

\* where a thread goes on when its stop_passthrough call returns
AfterStop(site) ==
    CASE site = "g_sp" -> "g_join_check"
      [] site = "fail_sp" -> "report_fail"
      [] site = "cl_sp" -> "cl_pt"

\* audio.py 272-281: is_running is cleared, both streams are stopped and
\* closed.  When the input stream is closed already the exception goes to
\* the caller: stop_routing logs a warning (window.py 109-110), _cleanup
\* passes over it (window.py 131-132), and out of start_passthrough it
\* reaches the handler of _routing_worker (window.py 86-87)
StopStreams(t) ==
    /\ sp[t] = "close"
    /\ pt_is_running' = [pt_is_running EXCEPT ![spq[t]] = FALSE]
    /\ IF StreamState(input_stream[spq[t]], inStream) = "closed"
       THEN /\ sp' = [sp EXCEPT ![t] = "none"]
            /\ pc' = [pc EXCEPT ![t] = AfterStop(pc[t])]
            /\ IF pc[t] = "g_sp" THEN Post("warning") ELSE UNCHANGED <<message_queue, pending>>
            /\ UNCHANGED strVars
       ELSE /\ inStream' = CloseRef(input_stream[spq[t]], inStream)
            /\ outStream' = CloseRef(output_stream[spq[t]], outStream)
            /\ sp' = [sp EXCEPT ![t] = "join_in"]
            /\ UNCHANGED <<pc, message_queue, pending>>
    /\ UNCHANGED <<is_running, passthrough, worker_thread, stop_event, spq, joining, args,
                   inst, input_stream, output_stream, input_thread, output_thread,
                   audio_queue, fmt, inVars, outVars, envVars>>

\* join(timeout=1.0) of worker `ref` returns: there is no live thread to
\* wait for, or the timeout expires on a worker in a blocking device call
JoinReturns(ref, alive, blocked) == ref = None \/ ~alive \/ blocked

\* audio.py 284-285
JoinInput(t) ==
    /\ sp[t] = "join_in"
    /\ LET w == input_thread[spq[t]]
       IN  JoinReturns(w, w # None /\ InAlive(w), w # None /\ InBlocked(w))
    /\ sp' = [sp EXCEPT ![t] = "join_out"]
    /\ UNCHANGED <<pc, spq, joining, args, inst, ctlVars, ptVars, strVars, fmt,
                   inVars, outVars, envVars>>

\* audio.py 286-296: the join of the output thread returns, the queue is
\* emptied and the call returns
JoinOutput(t) ==
    /\ sp[t] = "join_out"
    /\ LET w == output_thread[spq[t]]
       IN  JoinReturns(w, w # None /\ OutAlive(w), w # None /\ OutBlocked(w))
    /\ audio_queue' = [audio_queue EXCEPT ![spq[t]] = <<>>]
    /\ consumed' = [consumed EXCEPT ![spq[t]] = @ \/ audio_queue[spq[t]] # <<>>]
    /\ sp' = [sp EXCEPT ![t] = "none"]
    /\ pc' = [pc EXCEPT ![t] = AfterStop(pc[t])]
    /\ UNCHANGED <<spq, joining, args, inst, pt_is_running, input_stream, output_stream,
                   input_thread, output_thread, ctlVars, strVars, fmt, inVars, outVars,
                   framesRead, started, stops, faults, limits, dsp, sinkVars, auxVars>>

stop_passthrough(t) ==
    \/ StopStreams(t)
    \/ JoinInput(t)
    \/ JoinOutput(t)

\* thread t calls stop_passthrough of instance q from call site `site`
CallStop(t, q, site) ==
    /\ pc' = [pc EXCEPT ![t] = site]
    /\ sp' = [sp EXCEPT ![t] = "close"]
    /\ spq' = [spq EXCEPT ![t] = q]

(***************************************************************************)
(* AudioPassthrough.start_passthrough (audio.py 73-268), called by routing *)
(* thread t on the instance self.passthrough refers to (window.py 54).     *)
(***************************************************************************)
\* audio.py 129-145: the throwaway open of the output device at `rate`
ProbeAccepts(outDev, rate) == rate \in DeviceList[outDev].rates

\* a format that keeps the input device's rate whatever the probe says (the
\* negotiation of a faulty variant)
FormatNoFallback(inDev, outDev) ==
    [input_rate |-> DeviceList[inDev].defaultSampleRate,
     sample_rate |-> DeviceList[inDev].defaultSampleRate,
     input_channels |-> Min(DeviceList[inDev].maxInputChannels, 2),
     output_channels |-> Min(DeviceList[outDev].maxOutputChannels, 2),
     input_device |-> inDev,
     output_device |-> outDev]

\* audio.py 119-145: the format for an input and an output device
Format(inDev, outDev) ==
    LET input_rate == DeviceList[inDev].defaultSampleRate
        output_rate == DeviceList[outDev].defaultSampleRate
    IN  [input_rate |-> input_rate,
         sample_rate |-> IF ProbeAccepts(outDev, input_rate) THEN input_rate ELSE output_rate,
         input_channels |-> Min(DeviceList[inDev].maxInputChannels, 2),
         output_channels |-> Min(DeviceList[outDev].maxOutputChannels, 2),
         input_device |-> inDev,
         output_device |-> outDev]

\* window.py 54, 86-87 and audio.py 85-138, 141-144: the call (an
\* AttributeError when self.passthrough is None), the device lookup (a miss
\* returns False), the format, and the open of the test stream on the output
\* device at the input's rate; when that open raises, the rate is the output
\* device's
Negotiate(t) ==
    /\ pc[t] = "negotiate"
    /\ LET inDev == find_device_by_name(args[t].input_device_name, args[t].input_device_type)
           outDev == find_device_by_name(args[t].output_device_name, "output")
       IN  IF passthrough = None \/ inDev = None \/ outDev = None
           THEN /\ pc' = [pc EXCEPT ![t] = "report_fail"]
                /\ UNCHANGED <<fmt, inst, testStream>>
           ELSE /\ inst' = [inst EXCEPT ![t] = passthrough]
                /\ fmt' = [fmt EXCEPT ![t] = Format(inDev, outDev)]
                /\ IF ProbeAccepts(outDev, DeviceList[inDev].defaultSampleRate)
                   THEN /\ testStream' = [testStream EXCEPT ![t] = "open"]
                        /\ pc' = [pc EXCEPT ![t] = "probe_close"]
                   ELSE /\ pc' = [pc EXCEPT ![t] = "open_in"]
                        /\ UNCHANGED testStream
    /\ UNCHANGED <<sp, spq, joining, args, ctlVars, ptVars, strVars, inVars, outVars,
                   framesRead, consumed, started, stops, faults, limits, dsp, sinkVars,
                   catalog, overflows, written, is_routing, volume_var>>

\* audio.py 139: test_output.close()
ProbeClose(t) ==
    /\ pc[t] = "probe_close"
    /\ testStream' = [testStream EXCEPT ![t] = "closed"]
    /\ pc' = [pc EXCEPT ![t] = "open_in"]
    /\ UNCHANGED <<sp, spq, joining, args, inst, ctlVars, ptVars, strVars, fmt, inVars,
                   outVars, framesRead, consumed, started, stops, faults, limits, dsp,
                   sinkVars, catalog, overflows, written, is_routing, volume_var>>

\* self.audio.open(...) of device d at `rate` succeeds
\* an open that always succeeds (the device of a faulty variant)
OpenAlways(d, rate, channels) == TRUE

\* self.audio.open(...) of device d at `rate` with `channels` channels
\* succeeds; PortAudio refuses a channel count below 1
OpenAccepts(d, rate, channels) == channels >= 1 /\ rate \in DeviceList[d].rates

\* audio.py 155-162, 265-267: the input stream is opened; an exception
\* leads to self.stop_passthrough()
OpenInput(t) ==
    /\ pc[t] = "open_in"
    /\ IF OpenAccepts(fmt[t].input_device, fmt[t].sample_rate, fmt[t].input_channels)
       THEN /\ inStream' = [inStream EXCEPT ![t] = "open"]
            /\ input_stream' = [input_stream EXCEPT ![inst[t]] = t]
            /\ pc' = [pc EXCEPT ![t] = "open_out"]
            /\ UNCHANGED <<sp, spq>>
       ELSE /\ CallStop(t, inst[t], "fail_sp")
            /\ UNCHANGED <<inStream, input_stream>>
    /\ UNCHANGED <<joining, args, inst, pt_is_running, output_stream, input_thread,
                   output_thread, audio_queue, outStream, ctlVars, fmt, inVars, outVars,
                   envVars>>

\* audio.py 165-172, 265-267: the output stream is opened
OpenOutput(t) ==
    /\ pc[t] = "open_out"
    /\ IF OpenAccepts(fmt[t].output_device, fmt[t].sample_rate, fmt[t].output_channels)
       THEN /\ outStream' = [outStream EXCEPT ![t] = "open"]
            /\ output_stream' = [output_stream EXCEPT ![inst[t]] = t]
            /\ pc' = [pc EXCEPT ![t] = "run"]
            /\ UNCHANGED <<sp, spq>>
       ELSE /\ CallStop(t, inst[t], "fail_sp")
            /\ UNCHANGED <<outStream, output_stream>>
    /\ UNCHANGED <<joining, args, inst, pt_is_running, input_stream, input_thread,
                   output_thread, audio_queue, inStream, ctlVars, fmt, inVars, outVars,
                   envVars>>

\* audio.py 174, 255-263 and window.py 65-73: is_running is set, both
\* threads are started, and the caller posts success, the captured output
\* as log lines, and a status
Run(t) ==
    /\ pc[t] = "run"
    /\ pt_is_running' = [pt_is_running EXCEPT ![inst[t]] = TRUE]
    /\ input_thread' = [input_thread EXCEPT ![inst[t]] = t]
    /\ output_thread' = [output_thread EXCEPT ![inst[t]] = t]
    /\ inPc' = [inPc EXCEPT ![t] = "loop"]
    /\ outPc' = [outPc EXCEPT ![t] = "loop"]
    /\ PostAll(<<"success", "log", "status">>)
    /\ pc' = [pc EXCEPT ![t] = "wait"]
    /\ UNCHANGED <<is_running, passthrough, worker_thread, stop_event, sp, spq, joining,
                   args, inst, input_stream, output_stream, audio_queue,
                   inData, outData, strVars, fmt, envVars>>

start_passthrough(t) ==
    \/ Negotiate(t)
    \/ ProbeClose(t)
    \/ OpenInput(t)
    \/ OpenOutput(t)
    \/ Run(t)

(***************************************************************************)
(* AudioRoutingWorker._cleanup (window.py 125-134), run by thread t: the   *)
(* routing thread in its finally, the controlling thread after an error.   *)
(***************************************************************************)
\* window.py 127-128: is_running = False; if self.passthrough
CleanupFlag(t) ==
    /\ pc[t] = "cl_flag"
    /\ is_running' = FALSE
    /\ pc' = [pc EXCEPT ![t] = IF passthrough # None THEN "cl_call" ELSE "cl_wt"]
    /\ UNCHANGED <<passthrough, worker_thread, stop_event, message_queue, pending, sp, spq, joining,
                   args, inst, ptVars, strVars, fmt, inVars, outVars, envVars>>

\* window.py 129-132: self.passthrough.stop_passthrough(); the attribute is
\* read again, and an AttributeError on None is swallowed
CleanupCall(t) ==
    /\ pc[t] = "cl_call"
    /\ IF passthrough # None
       THEN CallStop(t, passthrough, "cl_sp")
       ELSE /\ pc' = [pc EXCEPT ![t] = "cl_pt"]
            /\ UNCHANGED <<sp, spq>>
    /\ UNCHANGED <<joining, args, inst, ctlVars, ptVars, strVars, fmt, inVars, outVars,
                   envVars>>

\* window.py 133
CleanupPassthrough(t) ==
    /\ pc[t] = "cl_pt"
    /\ passthrough' = None
    /\ pc' = [pc EXCEPT ![t] = "cl_wt"]
    /\ UNCHANGED <<is_running, worker_thread, stop_event, message_queue, pending, sp, spq, joining,
                   args, inst, ptVars, strVars, fmt, inVars, outVars, envVars>>

\* window.py 134; the routing thread ends, the controlling thread returns
CleanupThread(t) ==
    /\ pc[t] = "cl_wt"
    /\ worker_thread' = None
    /\ pc' = [pc EXCEPT ![t] = IF t = GuiThread THEN "idle" ELSE "done"]
    /\ UNCHANGED <<is_running, passthrough, stop_event, message_queue, pending, sp, spq, joining,
                   args, inst, ptVars, strVars, fmt, inVars, outVars, envVars>>

_cleanup(t) ==
    \/ CleanupFlag(t)
    \/ CleanupCall(t)
    \/ CleanupPassthrough(t)
    \/ CleanupThread(t)

(***************************************************************************)
(* AudioRoutingWorker._routing_worker (window.py 40-90), thread t.         *)
(***************************************************************************)
\* window.py 43-44
Begin(t) ==
    /\ pc[t] = "begin"
    /\ is_running' = TRUE
    /\ Post("status")
    /\ pc' = [pc EXCEPT ![t] = "create"]
    /\ UNCHANGED <<passthrough, worker_thread, stop_event, sp, spq, joining, args, inst,
                   ptVars, strVars, fmt, inVars, outVars, envVars>>

\* window.py 47: self.passthrough = AudioPassthrough()
Create(t) ==
    /\ pc[t] = "create"
    /\ passthrough' = t
    /\ pc' = [pc EXCEPT ![t] = "negotiate"]
    /\ UNCHANGED <<is_running, worker_thread, stop_event, message_queue, pending, sp, spq, joining,
                   args, inst, ptVars, strVars, fmt, inVars, outVars, envVars>>

\* window.py 80-87: the error is posted; the finally clause follows
ReportFailure(t) ==
    /\ pc[t] = "report_fail"
    /\ Post("error")
    /\ pc' = [pc EXCEPT ![t] = "cl_flag"]
    /\ UNCHANGED <<is_running, passthrough, worker_thread, stop_event, sp, spq, joining,
                   args, inst, ptVars, strVars, fmt, inVars, outVars, envVars>>

\* window.py 76-78: the wait loop ends when stop_event is set or
\* is_running is False; the finally clause follows
Wait(t) ==
    /\ pc[t] = "wait"
    /\ stop_event \/ ~is_running
    /\ pc' = [pc EXCEPT ![t] = "cl_flag"]
    /\ UNCHANGED <<sp, spq, joining, args, inst, ctlVars, ptVars, strVars, fmt,
                   inVars, outVars, envVars>>

_routing_worker(t) ==
    \/ Begin(t)
    \/ Create(t)
    \/ start_passthrough(t)
    \/ ReportFailure(t)
    \/ Wait(t)
    \/ _cleanup(t)
    \/ stop_passthrough(t)

(***************************************************************************)
(* The controlling thread: AudioRoutingWorker.start_routing (window.py     *)
(* 27-38) and stop_routing (window.py 92-123).                             *)
(***************************************************************************)
\* the calls of this run come from AudioGUI
FromWindow == limits.gui

\* window.py 27-38; AudioGUI.start_routing makes the call when is_routing
\* is False, with the value of the slider (window.py 606, 633, 642)
start_routing(a) ==
    /\ pc[GuiThread] = "idle"
    /\ started < limits.starts
    /\ FromWindow => (~is_routing /\ a.volume_multiplier = volume_var)
    /\ started' = started + 1
    /\ stops' = 0
    /\ IF is_running
       THEN /\ Post("error")
            /\ UNCHANGED <<stop_event, worker_thread, pc, args>>
       ELSE /\ stop_event' = FALSE
            /\ worker_thread' = started + 1
            /\ pc' = [pc EXCEPT ![started + 1] = "begin"]
            /\ args' = [args EXCEPT ![started + 1] = a]
            /\ UNCHANGED <<message_queue, pending>>
    /\ UNCHANGED <<is_running, passthrough, sp, spq, joining, inst, ptVars, strVars, fmt,
                   inVars, outVars, framesRead, consumed, faults, limits, dsp, sinkVars, auxVars>>

\* a routing thread that has been started and has not ended
RtAlive(t) == pc[t] \notin {"unborn", "done"}

\* a routing thread held up for seconds: it waits in a join on a worker
\* that sits in a blocking device call
RtBlocked(t) ==
    \/ sp[t] = "join_in" /\ input_thread[spq[t]] # None /\ InBlocked(input_thread[spq[t]])
    \/ sp[t] = "join_out" /\ output_thread[spq[t]] # None /\ OutBlocked(output_thread[spq[t]])

\* window.py 94-106: the test of is_running, the stop signal, and
\* `if self.passthrough`
StopCall ==
    /\ pc[GuiThread] = "idle"
    /\ stops < limits.stops
    /\ stops' = stops + 1
    /\ IF ~is_running
       THEN /\ Post("log")
            /\ UNCHANGED <<stop_event, is_running, pc>>
       ELSE /\ Post("status")
            /\ stop_event' = TRUE
            /\ is_running' = FALSE
            /\ pc' = [pc EXCEPT ![GuiThread] =
                        IF passthrough # None THEN "g_call" ELSE "g_join_check"]
    /\ UNCHANGED <<passthrough, worker_thread, sp, spq, joining, args, inst, ptVars, strVars,
                   fmt, inVars, outVars, framesRead, consumed, started, faults, limits, dsp, sinkVars, auxVars>>

\* window.py 107-110: self.passthrough.stop_passthrough(); an AttributeError
\* on None is logged as a warning
StopPassthroughCall ==
    /\ pc[GuiThread] = "g_call"
    /\ IF passthrough # None
       THEN /\ CallStop(GuiThread, passthrough, "g_sp")
            /\ UNCHANGED <<message_queue, pending>>
       ELSE /\ Post("warning")
            /\ pc' = [pc EXCEPT ![GuiThread] = "g_join_check"]
            /\ UNCHANGED <<sp, spq>>
    /\ UNCHANGED <<is_running, passthrough, worker_thread, stop_event, joining, args, inst,
                   ptVars, strVars, fmt, inVars, outVars, envVars>>

\* window.py 113-114, 118: if self.worker_thread and
\* self.worker_thread.is_alive(), join(timeout=2.0) is called; otherwise
\* "stopped" is posted and the call returns
JoinCall ==
    /\ pc[GuiThread] = "g_join_check"
    /\ IF worker_thread # None /\ RtAlive(worker_thread)
       THEN /\ joining' = worker_thread
            /\ pc' = [pc EXCEPT ![GuiThread] = "g_joining"]
            /\ UNCHANGED <<message_queue, pending>>
       ELSE /\ Post("stopped")
            /\ pc' = [pc EXCEPT ![GuiThread] = "idle"]
            /\ UNCHANGED joining
    /\ UNCHANGED <<is_running, passthrough, worker_thread, stop_event, sp, spq, args, inst,
                   ptVars, strVars, fmt, inVars, outVars, envVars>>

\* window.py 114: the join returns, the thread has ended or the timeout
\* has expired
JoinReturn ==
    /\ pc[GuiThread] = "g_joining"
    /\ ~RtAlive(joining) \/ RtBlocked(joining)
    /\ joining' = None
    /\ pc' = [pc EXCEPT ![GuiThread] = "g_alive"]
    /\ UNCHANGED <<sp, spq, args, inst, ctlVars, ptVars, strVars, fmt, inVars, outVars,
                   envVars>>

\* window.py 115-123: self.worker_thread.is_alive() raises AttributeError
\* on None: the error is posted and _cleanup is run; otherwise the warning
\* (thread still alive) and "stopped" are posted
AliveCheck ==
    /\ pc[GuiThread] = "g_alive"
    /\ IF worker_thread = None
       THEN /\ Post("error")
            /\ pc' = [pc EXCEPT ![GuiThread] = "cl_flag"]
       ELSE /\ PostAll(IF RtAlive(worker_thread) THEN <<"warning", "stopped">> ELSE <<"stopped">>)
            /\ pc' = [pc EXCEPT ![GuiThread] = "idle"]
    /\ UNCHANGED <<is_running, passthrough, worker_thread, stop_event, sp, spq, joining,
                   args, inst, ptVars, strVars, fmt, inVars, outVars, envVars>>

stop_routing ==
    \/ StopCall
    \/ StopPassthroughCall
    \/ JoinCall
    \/ JoinReturn
    \/ AliveCheck
    \/ _cleanup(GuiThread)
    \/ stop_passthrough(GuiThread)

(***************************************************************************)
(* AudioGUI (window.py 463-525), on the controlling thread between two     *)
(* calls.                                                                  *)
(***************************************************************************)
\* window.py 470-491: is_routing after the messages msgs were taken, in order
RECURSIVE Processed(_, _)
Processed(msgs, routing) ==
    IF msgs = <<>> THEN routing
    ELSE Processed(Tail(msgs),
                   IF Head(msgs) = "success" THEN TRUE
                   ELSE IF Head(msgs) \in {"error", "stopped"} THEN FALSE
                   ELSE routing)

\* window.py 463-500: the window takes every message off message_queue
process_messages ==
    /\ FromWindow
    /\ pc[GuiThread] = "idle"
    /\ pending # <<>>
    /\ is_routing' = Processed(pending, is_routing)
    /\ pending' = <<>>
    /\ UNCHANGED <<is_running, passthrough, worker_thread, stop_event, message_queue,
                   thrVars, ptVars, strVars, fmt, inVars, outVars, framesRead, consumed,
                   started, stops, faults, limits, dsp, sinkVars, testStream, catalog,
                   overflows, written, volume_var>>

\* window.py 401-411, 519-525: the slider is moved to v; the callback
\* rewrites the label
update_volume_label(v) ==
    /\ FromWindow
    /\ pc[GuiThread] = "idle"
    /\ v # volume_var
    /\ volume_var' = v
    /\ UNCHANGED <<ctlVars, thrVars, ptVars, strVars, fmt, inVars, outVars, framesRead,
                   consumed, started, stops, faults, limits, dsp, sinkVars, testStream,
                   catalog, overflows, written, is_routing>>

Next ==
    \/ \E a \in limits.choices : start_routing(a)
    \/ stop_routing
    \/ process_messages
    \/ \E v \in Volumes : update_volume_label(v)
    \/ \E t \in Sessions : _routing_worker(t)
    \/ \E w \in Sessions : input_worker(w)
    \/ \E w \in Sessions : output_worker(w)

Spec == Init /\ [][Next]_vars

\* ExitSpec: the runs of Spec, and the runs in which either of two
\* start_routing calls may fail
ExitInit ==
    /\ RoutingStart
    /\ limits \in Workloads \cup {ExitWorkload}
    /\ dsp = NoDsp
    /\ catalog = NoCatalog
    /\ SinkInit

ExitSpec == ExitInit /\ [][Next]_vars

(***************************************************************************)
(* The conversions of input_worker on their own (audio.py 183-223): one    *)
(* block of chunk_size frames, drawn from the corners of the int16 range,  *)
(* goes through volume, channel conversion and sample rate conversion.     *)
(***************************************************************************)
DspSamples == {INT16_MIN, -5, 4, INT16_MAX}

\* volume multipliers in (0, 4]
DspVolumes == {Vol(1, 2), Vol(1, 1), Vol(3, 2), Vol(2, 1), Vol(4, 1)}

DspRates == {44100, 48000}

DspBlocks(channels) == [1..(ChunkSize * channels) -> DspSamples]

\* data is the block as it stands; scaled and mixed keep what the volume
\* and the channel conversion made of it, back what a second channel
\* conversion in the opposite direction makes of the mixed block
DspInputs ==
    UNION { [stage : {"raw"}, raw : DspBlocks(c), data : {<<>>}, scaled : {<<>>},
             mixed : {<<>>}, back : {<<>>}, vol : DspVolumes,
             inCh : {c}, outCh : {1, 2}, inRate : DspRates, outRate : DspRates]
            : c \in {1, 2} }

\* the routing state, which the conversions leave alone
DspFrame ==
    UNCHANGED <<ctlVars, thrVars, ptVars, strVars, fmt, inVars, outVars, framesRead,
                consumed, started, stops, faults, limits, sinkVars, auxVars>>

DspInit ==
    /\ RoutingInit
    /\ limits = DeviceWorkload
    /\ dsp \in DspInputs
    /\ catalog = NoCatalog
    /\ SinkInit

\* audio.py 183-185
DspVolume ==
    /\ dsp.stage = "raw"
    /\ \E mode \in CastModes :
         dsp' = [dsp EXCEPT !.stage = "scaled",
                            !.data = ApplyVolume(dsp.raw, dsp.vol, mode),
                            !.scaled = ApplyVolume(dsp.raw, dsp.vol, mode)]
    /\ DspFrame

\* audio.py 187-195
DspRemix ==
    /\ dsp.stage = "scaled"
    /\ dsp' = [dsp EXCEPT !.stage = "mixed",
                          !.data = Remix(dsp.data, dsp.inCh, dsp.outCh),
                          !.mixed = Remix(dsp.data, dsp.inCh, dsp.outCh)]
    /\ DspFrame

\* audio.py 187-195 in a session that takes the mixed block as its input:
\* its input has outCh channels, its output inCh
DspRemixBack ==
    /\ dsp.stage = "mixed"
    /\ dsp.inCh # dsp.outCh
    /\ dsp' = [dsp EXCEPT !.stage = "back",
                          !.back = Remix(dsp.data, dsp.outCh, dsp.inCh)]
    /\ DspFrame

\* audio.py 197-223
DspResample ==
    /\ dsp.stage = "mixed"
    /\ dsp' = [dsp EXCEPT !.stage = "resampled",
                          !.data = Resample(dsp.data, dsp.inRate, dsp.outRate, dsp.outCh)]
    /\ DspFrame

DspNext ==
    \/ DspVolume
    \/ DspRemix
    \/ DspRemixBack
    \/ DspResample

DspSpec == DspInit /\ [][DspNext]_vars

(***************************************************************************)
(* The sample rate conversion on its own (audio.py 197-223): one block of  *)
(* 1..MaxLen samples, mono or interleaved stereo, between any two of the    *)
(* usual device rates.                                                     *)
(***************************************************************************)
LenRates == {8000, 16000, 22050, 44100, 48000}

\* a block of n samples of alternating sign
Ramp(n) == [i \in 1..n |-> IF i % 2 = 1 THEN 100 * i ELSE -(100 * i)]

LenInputs ==
    { [stage |-> "mixed", raw |-> <<>>, data |-> Ramp(n), scaled |-> <<>>,
       mixed |-> Ramp(n), back |-> <<>>, vol |-> Vol(1, 1), inCh |-> c, outCh |-> c,
       inRate |-> i, outRate |-> o]
      : n \in 1..MaxLen, c \in {1, 2}, i \in LenRates, o \in LenRates }

LenInit ==
    /\ RoutingInit
    /\ limits = DeviceWorkload
    /\ dsp \in LenInputs
    /\ catalog = NoCatalog
    /\ SinkInit

LenSpec == LenInit /\ [][DspResample]_vars

(***************************************************************************)
(* The speech path (main.py 7-24): the thread of                           *)
(* VirtualSpeaker.start_capture forwards the chunks of the device callback *)
(* to SpeechRecognizer.process_audio; the thread of                        *)
(* SpeechRecognizer.start_recognition takes them from the recognizer's own *)
(* queue.  A chunk is named by its number.                                 *)
(***************************************************************************)
SinkFrame ==
    UNCHANGED <<ctlVars, thrVars, ptVars, strVars, fmt, inVars, outVars, framesRead,
                consumed, started, stops, faults, limits, dsp, auxVars>>

\* virtual_speaker.py 109-121: the callback of sd.InputStream, run by the
\* audio library while the stream of start_capture is open; the chunk is
\* put on the unbounded audio_queue
audio_input_callback ==
    /\ capPc \in {"loop", "callback"}
    /\ captured < MaxChunks
    /\ captured' = captured + 1
    /\ vs_audio_queue' = Append(vs_audio_queue, captured + 1)
    /\ UNCHANGED <<halted, vs_running, sr_running, sr_audio_queue, text_queue, capPc, capChunk,
                   recPc, forwarded>>
    /\ SinkFrame

\* main.py 16-17, virtual_speaker.py 134-163: running is set and the input
\* stream is opened
StartCapture ==
    /\ capPc = "unborn"
    /\ vs_running' = TRUE
    /\ capPc' = "loop"
    /\ UNCHANGED <<halted, vs_audio_queue, sr_running, sr_audio_queue, text_queue, capChunk, recPc,
                   captured, forwarded>>
    /\ SinkFrame

\* virtual_speaker.py 152-158, 169-171: sd.InputStream raises, the error is
\* printed and start_capture returns
StartCaptureFails ==
    /\ capPc = "unborn"
    /\ vs_running' = TRUE
    /\ capPc' = "done"
    /\ UNCHANGED <<halted, vs_audio_queue, sr_running, sr_audio_queue, text_queue, capChunk, recPc,
                   captured, forwarded>>
    /\ SinkFrame

\* virtual_speaker.py 163-167: the loop test, `if not
\* self.audio_queue.empty()`, and audio_queue.get(); the call of
\* audio_callback follows
CaptureTake ==
    /\ capPc = "loop"
    /\ vs_running
    /\ vs_audio_queue # <<>>
    /\ capChunk' = Head(vs_audio_queue)
    /\ vs_audio_queue' = Tail(vs_audio_queue)
    /\ capPc' = "callback"
    /\ UNCHANGED <<halted, vs_running, sr_running, sr_audio_queue, text_queue, recPc, captured,
                   forwarded>>
    /\ SinkFrame

\* a put that waits for room in a queue of one (the sink of a faulty variant)
PutWaits(q) == Len(q) < 1

\* queue.Queue() has no maxsize: put returns at once whatever the queue holds
PutReturns(q) == TRUE

\* speech_recognizer.py 18-21, called at virtual_speaker.py 167:
\* self.audio_queue.put((audio_data, sample_rate)), and the return to the
\* loop of start_capture
process_audio ==
    /\ capPc = "callback"
    /\ PutReturns(sr_audio_queue)
    /\ sr_audio_queue' = Append(sr_audio_queue, capChunk)
    /\ forwarded' = forwarded + 1
    /\ capChunk' = 0
    /\ capPc' = "loop"
    /\ UNCHANGED <<halted, vs_running, vs_audio_queue, sr_running, text_queue, recPc, captured>>
    /\ SinkFrame

start_capture ==
    \/ StartCapture
    \/ StartCaptureFails
    \/ CaptureTake
    \/ process_audio

\* main.py 20-21, speech_recognizer.py 23-27
StartRecognition ==
    /\ recPc = "unborn"
    /\ sr_running' = TRUE
    /\ recPc' = "loop"
    /\ UNCHANGED <<halted, vs_running, vs_audio_queue, sr_audio_queue, text_queue, capPc, capChunk,
                   captured, forwarded>>
    /\ SinkFrame

\* speech_recognizer.py 27-34: `if not self.audio_queue.empty()`, get(), and
\* the conversion to AudioData
RecognitionTake ==
    /\ recPc = "loop"
    /\ sr_running
    /\ sr_audio_queue # <<>>
    /\ sr_audio_queue' = Tail(sr_audio_queue)
    /\ recPc' = "recognize"
    /\ UNCHANGED <<halted, vs_running, vs_audio_queue, sr_running, text_queue, capPc, capChunk,
                   captured, forwarded>>
    /\ SinkFrame

\* speech_recognizer.py 36-48: recognize_google returns a text, which is put
\* on text_queue when it is not blank, or raises; every exception is passed
\* over and the loop goes on
Recognize ==
    /\ recPc = "recognize"
    /\ \E text \in BOOLEAN : text_queue' = text_queue + IF text THEN 1 ELSE 0
    /\ recPc' = "loop"
    /\ UNCHANGED <<halted, vs_running, vs_audio_queue, sr_running, sr_audio_queue, capPc, capChunk,
                   captured, forwarded>>
    /\ SinkFrame

start_recognition ==
    \/ StartRecognition
    \/ RecognitionTake
    \/ Recognize

\* SinkSpec: the thread of start_capture is scheduled; nothing obliges the
\* device to deliver a chunk or the recognizer to take one or to answer
SinkNext ==
    \/ audio_input_callback
    \/ start_capture
    \/ start_recognition

SinkPathInit ==
    /\ RoutingInit
    /\ limits = DeviceWorkload
    /\ dsp = NoDsp
    /\ catalog = NoCatalog
    /\ SinkInit

SinkSpec == SinkPathInit /\ [][SinkNext]_vars /\ WF_vars(start_capture)

(***************************************************************************)
(* The speech path with its two stop calls (virtual_speaker.py 173-175,    *)
(* speech_recognizer.py 66-68).  main.py never makes them; a caller that   *)
(* holds the two objects may, at any time after it has started the thread. *)
(***************************************************************************)
\* virtual_speaker.py 173-175
stop_capture ==
    /\ vs_running' = FALSE
    /\ halted' = [halted EXCEPT !.capture = TRUE]
    /\ UNCHANGED <<vs_audio_queue, sr_running, sr_audio_queue, text_queue, capPc, capChunk,
                   recPc, captured, forwarded>>
    /\ SinkFrame

\* speech_recognizer.py 66-68
stop_recognition ==
    /\ sr_running' = FALSE
    /\ halted' = [halted EXCEPT !.recognition = TRUE]
    /\ UNCHANGED <<vs_running, vs_audio_queue, sr_audio_queue, text_queue, capPc, capChunk,
                   recPc, captured, forwarded>>
    /\ SinkFrame

\* virtual_speaker.py 163: `while self.running` finds running False; the
\* with block closes the stream and start_capture returns
CaptureExit ==
    /\ capPc = "loop"
    /\ ~vs_running
    /\ capPc' = "done"
    /\ UNCHANGED <<vs_running, vs_audio_queue, sr_running, sr_audio_queue, text_queue,
                   capChunk, recPc, captured, forwarded, halted>>
    /\ SinkFrame

\* speech_recognizer.py 27: `while self.running` finds running False and
\* start_recognition returns
RecognitionExit ==
    /\ recPc = "loop"
    /\ ~sr_running
    /\ recPc' = "done"
    /\ UNCHANGED <<vs_running, vs_audio_queue, sr_running, sr_audio_queue, text_queue,
                   capPc, capChunk, captured, forwarded, halted>>
    /\ SinkFrame

HaltNext ==
    \/ audio_input_callback
    \/ start_capture
    \/ CaptureExit
    \/ start_recognition
    \/ RecognitionExit
    \/ stop_capture
    \/ stop_recognition

\* HaltSpec: both threads are scheduled, and a recognition that has begun
\* returns or raises
HaltSpec ==
    /\ SinkPathInit
    /\ [][HaltNext]_vars
    /\ WF_vars(start_capture \/ CaptureExit)
    /\ WF_vars(start_recognition \/ RecognitionExit)

(***************************************************************************)
(* Properties of the transport queue.                                      *)
(***************************************************************************)
\* C1: the audio_queue of an instance never holds more than buffer_size
\* blocks, whatever the producer and the consumer do.
C1_QueueBounded == \A q \in Sessions : Len(audio_queue[q]) <= BufferSize

\* more blocks than the queue holds have been pushed and the queue is full
C1_Witness ==
    \E w \in Sessions :
        /\ inst[w] # None
        /\ framesRead[w] > BufferSize
        /\ inPc[w] = "loop"
        /\ Len(audio_queue[inst[w]]) = BufferSize

\* input_worker w is inside the push of a block (audio.py 226-234)
Pushing(w) == inPc[w] \in {"evict", "reput"}

\* C2 as the specification states it: every push, the one whose first put
\* met a full queue included, ends with the pushed block as the newest
\* entry of the queue, also when the consumer pops between the failed put
\* and the eviction.
C2_PushedIsNewest ==
    [][\A w \in Sessions :
          /\ (inPc[w] = "reading" /\ framesRead'[w] # framesRead[w] /\ ~Pushing(w)')
                => /\ audio_queue'[inst[w]] # <<>>
                   /\ \E mode \in CastModes :
                         audio_queue'[inst[w]][Len(audio_queue'[inst[w]])]
                           = FrameOf(w, framesRead'[w], mode)
          /\ (Pushing(w) /\ ~Pushing(w)')
                => /\ audio_queue'[inst[w]] # <<>>
                   /\ audio_queue'[inst[w]][Len(audio_queue'[inst[w]])] = inData[w]]_vars

\* input_worker w is the only one that has pushed to its instance's queue
SoleProducer(w) ==
    /\ inst[w] # None
    /\ \A v \in Sessions \ {w} : inst[v] = inst[w] => framesRead[v] = 0

\* BufferSize + 1 blocks pushed by w, none in flight, none taken at the
\* consumer's end
PushedOneMore(w) ==
    /\ SoleProducer(w)
    /\ ~consumed[inst[w]]
    /\ ~Pushing(w)
    /\ framesRead[w] = BufferSize + 1

\* C3: after buffer_size + 1 pushes with no pop the queue holds exactly the
\* last buffer_size blocks, in the order they were pushed.
C3_KeepsLastK ==
    \A w \in Sessions :
        PushedOneMore(w) =>
            \E mode \in CastModes :
                audio_queue[inst[w]] = [i \in 1..BufferSize |-> FrameOf(w, i + 1, mode)]

C3_Witness ==
    \E w \in Sessions :
        /\ PushedOneMore(w)
        /\ Len(audio_queue[inst[w]]) = BufferSize
        /\ audio_queue[inst[w]][1].id = 2

(***************************************************************************)
(* Properties of the playback worker.                                      *)
(***************************************************************************)
\* a block of n samples, all zero
IsSilence(samples, n) == Len(samples) = n /\ \A i \in 1..n : samples[i] = 0

\* C10: when get finds the queue empty while the instance is running, the
\* worker hands the output device one block of chunk_size * output_channels
\* zero samples, and when the device has taken it the worker is back at the
\* head of its loop: the empty queue does not end it.
C10_SilenceOnEmpty ==
    [][\A w \in Sessions :
          /\ (/\ outPc[w] = "loop" /\ outPc'[w] # "loop"
              /\ pt_is_running[inst[w]] /\ audio_queue[inst[w]] = <<>>)
                => /\ outPc'[w] = "silence"
                   /\ IsSilence(outData'[w].samples, ChunkSize * fmt[w].output_channels)
          /\ (/\ outPc[w] = "silence" /\ outPc'[w] # "silence"
              /\ StreamState(output_stream[inst[w]], outStream) = "open"
              /\ faults' = faults)
                => /\ outPc'[w] = "loop"
                   /\ IsSilence(outData[w].samples, ChunkSize * fmt[w].output_channels)]_vars

\* the worker has written silence for a stereo device fed from a mono one
\* and is back at the head of its loop, the instance still running
C10_Witness ==
    \E w \in Sessions :
        /\ outPc[w] = "loop"
        /\ pt_is_running[inst[w]]
        /\ outData[w].id = 0
        /\ fmt[w].input_channels = 1
        /\ IsSilence(outData[w].samples, ChunkSize * 2)

(***************************************************************************)
(* Properties of the routing controller.                                   *)
(***************************************************************************)
\* C4 as the specification states it: whatever the sequence of
\* start_routing calls, two back to back included, at most one capture
\* worker and at most one playback worker exist.
C4_OneWorkerPair ==
    /\ Cardinality({w \in Sessions : InAlive(w)}) <= 1
    /\ Cardinality({w \in Sessions : OutAlive(w)}) <= 1

\* a stop_routing call that found the routing running has returned, and
\* start_routing has not been called since
StopReturned == stop_event /\ pc[GuiThread] = "idle"

C6_StopIdempotent ==
    [][(/\ stops' = stops + 1
        /\ stops >= 1 \/ \A t \in Sessions : ~RtAlive(t))
          => /\ message_queue'["error"] = message_queue["error"]
             /\ UNCHANGED <<is_running, passthrough, worker_thread, stop_event, pc,
                            ptVars, strVars>>]_vars

\* C8 as the specification states it: when stop_routing has returned with a
\* worker still inside a device call, the controller is idle, a warning has
\* been logged for the join that gave up, and no error has been posted.
C8_StuckWorkerWarned ==
    (StopReturned /\ \E w \in Sessions : InBlocked(w) \/ OutBlocked(w))
        => /\ ~is_running
           /\ message_queue["warning"] >= 1
           /\ message_queue["error"] = 0

(***************************************************************************)
(* The routing under the scheduling of threads: a thread that can take a   *)
(* step of the program does so in the end.  Nothing obliges the user to    *)
(* call start_routing or stop_routing, a device to deliver a block, or a   *)
(* device call to fail.                                                    *)
(***************************************************************************)
Fairness ==
    /\ \A t \in Sessions : WF_vars(_routing_worker(t))
    /\ \A w \in Sessions : WF_vars(InLoop(w) \/ InEvict(w) \/ InReput(w))
    /\ \A w \in Sessions : WF_vars(OutGet(w) \/ OutWrite(w))
    /\ WF_vars(\/ StopPassthroughCall \/ JoinCall \/ JoinReturn \/ AliveCheck
               \/ _cleanup(GuiThread) \/ stop_passthrough(GuiThread))

FairSpec == Spec /\ Fairness

\* a read or a write on a stream that was closed under the call comes back
ClosedCallReturns(w) ==
    \/ /\ inPc[w] = "reading"
       /\ StreamState(input_stream[inst[w]], inStream) # "open"
       /\ InRead(w) \/ InReadError(w)
    \/ /\ outPc[w] \in {"write", "silence"}
       /\ StreamState(output_stream[inst[w]], outStream) # "open"
       /\ OutWriteError(w)

\* the scheduling of threads, and device calls that are bounded: a call on
\* a closed stream returns or raises
StopSpec == Spec /\ Fairness /\ \A w \in Sessions : WF_vars(ClosedCallReturns(w))

\* the routing has been torn down after a failure: no stream is open, no
\* routing thread is left, one error has been posted, start_routing would
\* be accepted
TornDown ==
    /\ \A t \in Sessions : inStream[t] # "open" /\ outStream[t] # "open"
    /\ \A t \in Sessions : ~RtAlive(t)
    /\ message_queue["error"] = 1
    /\ ~is_running

\* C7 as the specification states it: once a device call of a worker has
\* failed, the routing is torn down in the end: the streams are closed, the
\* error is reported exactly once and the controller can be started again.
C7_FailureTearsDown == (faults > 0) ~> TornDown

(***************************************************************************)
(* Properties of the conversions.                                          *)
(***************************************************************************)
\* C9 as the specification states it: for a volume v in (0, 4] every scaled
\* sample is s * v rounded toward zero and saturated to the int16 range;
\* no input wraps around.
C9_VolumeSaturates ==
    dsp.stage = "scaled" =>
        \A i \in 1..Len(dsp.raw) :
            dsp.data[i] = Clip16(TruncDiv(dsp.raw[i] * dsp.vol.num, dsp.vol.den))

\* C11: a mono block that is duplicated to stereo and then averaged back to
\* mono is the block it was, sample for sample, for every 16-bit sample
\* value.
C11_MonoRoundTrip ==
    (dsp.stage = "back" /\ dsp.inCh = 1 /\ dsp.outCh = 2) => dsp.back = dsp.scaled

\* a mono block holding both ends of the int16 range has gone to stereo and
\* back
C11_Witness ==
    /\ dsp.stage = "back" /\ dsp.inCh = 1 /\ dsp.outCh = 2
    /\ dsp.scaled = <<INT16_MIN, INT16_MAX>>
    /\ dsp.mixed = <<INT16_MIN, INT16_MIN, INT16_MAX, INT16_MAX>>
    /\ dsp.back = <<INT16_MIN, INT16_MAX>>

\* floor(len * outRate / inRate)
FloorLength(len, inRate, outRate) == (len * outRate) \div inRate

\* the distance between two lengths
Dist(a, b) == IF a >= b THEN a - b ELSE b - a

\* C12: for every pair of rates in {8000, 16000, 22050, 44100, 48000} and
\* every block, mono or stereo of even length, the length of the resampled
\* block is floor(input_length * out_rate / in_rate), give or take one.
C12_ResampleLength ==
    (dsp.stage = "resampled" /\ (dsp.outCh = 1 \/ Len(dsp.mixed) % 2 = 0))
        => Dist(Len(dsp.data), FloorLength(Len(dsp.mixed), dsp.inRate, dsp.outRate)) <= 1

\* a stereo block of twelve samples has been resampled to one sample less
\* than the floor
C12_Witness ==
    /\ dsp.stage = "resampled"
    /\ dsp.inRate = 48000 /\ dsp.outRate = 22050
    /\ dsp.outCh = 2 /\ Len(dsp.mixed) = 12
    /\ FloorLength(12, 48000, 22050) = 5
    /\ Len(dsp.data) = 4

(***************************************************************************)
(* Properties of start_passthrough.                                        *)
(***************************************************************************)
\* session t has a format, its input device's default rate is 48000 Hz and
\* its output device refuses an open at 48000 Hz
ProbeRejected(t) ==
    /\ fmt[t] # NoFmt
    /\ DeviceList[fmt[t].input_device].defaultSampleRate = 48000
    /\ 48000 \notin DeviceList[fmt[t].output_device].rates

\* C13: when the input device's default rate is 48000 Hz and the output
\* device rejects the probe at 48000 Hz, the negotiated rate is the output
\* device's default rate, and a stream of the session that is open was
\* opened at that rate.
C13_FallsBackToOutputRate ==
    \A t \in Sessions :
        ProbeRejected(t) =>
            LET native == DeviceList[fmt[t].output_device].defaultSampleRate
            IN  /\ fmt[t].sample_rate = native
                /\ inStream[t] = "open" => native \in DeviceList[fmt[t].input_device].rates
                /\ outStream[t] = "open" => native \in DeviceList[fmt[t].output_device].rates

\* the loopback of the speaker (48000 Hz) is routed to the headphones, which
\* open at 44100 Hz only: both streams are open and both workers run
C13_Witness ==
    \E t \in Sessions :
        /\ ProbeRejected(t)
        /\ fmt[t].input_rate = 48000
        /\ fmt[t].sample_rate = 44100
        /\ inStream[t] = "open" /\ outStream[t] = "open"
        /\ InAlive(t) /\ OutAlive(t)

\* device d is of the kind a lookup asks for
OfKind(d, kind) ==
    \/ kind = "output" /\ DeviceList[d].maxOutputChannels > 0
    \/ kind = "input" /\ DeviceList[d].maxInputChannels > 0
    \/ kind = "loopback" /\ DeviceList[d].isLoopbackDevice

NoMatch(fragment, kind) ==
    \A d \in DeviceIds : ~(OfKind(d, kind) /\ NameMatches(fragment, d))

\* routing thread t was started with a name fragment that no device of the
\* requested kind matches
Unmatched(t) ==
    /\ pc[t] # "unborn"
    /\ \/ NoMatch(args[t].input_device_name, args[t].input_device_type)
       \/ NoMatch(args[t].output_device_name, "output")

\* C14: a start with a name fragment that matches no device of the
\* requested kind fails before any stream is opened: no format is
\* negotiated (no probe), no stream exists, no worker is started, the
\* session never runs and no success is reported; when the routing thread
\* has ended an error has been posted and the controller is idle.
C14_UnmatchedNameOpensNothing ==
    \A t \in Sessions :
        Unmatched(t) =>
            /\ fmt[t] = NoFmt
            /\ inStream[t] = "none" /\ outStream[t] = "none"
            /\ inPc[t] = "none" /\ outPc[t] = "none"
            /\ ~pt_is_running[t]
            /\ message_queue["success"] = 0
            /\ pc[t] = "done" =>
                  /\ message_queue["error"] >= 1
                  /\ ~is_running
                  /\ passthrough = None

\* a start with a fragment that names an output device only, asked for as
\* an input, has failed and its routing thread has ended
C14_Witness ==
    \E t \in Sessions :
        /\ Unmatched(t)
        /\ args[t].input_device_name = <<"h", "p">>
        /\ pc[t] = "done"
        /\ message_queue["error"] = 1

\* an open of a real stream of session t raised
OpenFailed(t) ==
    /\ fmt[t] # NoFmt
    /\ \/ fmt[t].sample_rate \notin DeviceList[fmt[t].input_device].rates
       \/ fmt[t].sample_rate \notin DeviceList[fmt[t].output_device].rates

\* start_passthrough of routing thread t has returned to _routing_worker
\* without success
StartReturned(t) ==
    pc[t] \in {"report_fail", "cl_flag", "cl_call", "cl_sp", "cl_pt", "cl_wt", "done"}

\* C15: when the open of the input stream or of the output stream fails,
\* start_passthrough returns with every stream it had opened closed, no
\* worker started and the session not running; the failure is reported, and
\* when the routing thread has ended the controller is idle.
C15_FailedOpenLeavesNothing ==
    \A t \in Sessions :
        (OpenFailed(t) /\ StartReturned(t)) =>
            /\ inStream[t] # "open" /\ outStream[t] # "open"
            /\ inPc[t] = "none" /\ outPc[t] = "none"
            /\ ~pt_is_running[inst[t]]
            /\ message_queue["success"] = 0
            /\ pc[t] \notin {"report_fail"} => message_queue["error"] >= 1
            /\ pc[t] = "done" => ~is_running /\ passthrough = None

\* the input stream was opened, the open of the output stream failed, and
\* the input stream is closed again
C15_Witness ==
    \E t \in Sessions :
        /\ OpenFailed(t)
        /\ pc[t] = "done"
        /\ inStream[t] = "closed" /\ outStream[t] = "none"
        /\ message_queue["error"] = 1

(***************************************************************************)
(* Properties of the threads' access to the streams.                       *)
(***************************************************************************)
\* the controlling thread's stop_passthrough call stops and closes the
\* streams in this step
GuiClosesStreams == sp[GuiThread] = "close" /\ sp'[GuiThread] = "join_in"

\* C16 as the specification states it: a stream is touched by the worker
\* of its direction only; the controlling thread never stops or closes a
\* stream while a worker is inside a read or a write on it.
C16_StreamOwnedByWorker ==
    [][GuiClosesStreams =>
          \A w \in Sessions :
              /\ ~(/\ InBlocked(w)
                   /\ StreamState(input_stream[inst[w]], inStream) = "open"
                   /\ StreamState(input_stream[inst[w]], inStream') = "closed")
              /\ ~(/\ OutBlocked(w)
                   /\ StreamState(output_stream[inst[w]], outStream) = "open"
                   /\ StreamState(output_stream[inst[w]], outStream') = "closed")]_vars

\* the stop flag of worker w's instance is set: is_running is False
StopFlag(w) == inst[w] # None /\ ~pt_is_running[inst[w]]

\* a worker whose stop flag is set has not ended yet
Stopping == \E w \in Sessions : StopFlag(w) /\ (InAlive(w) \/ OutAlive(w))

C18_OnlyThreeKinds ==
    \A k \in Kinds \ {"status", "log", "warning", "error"} : message_queue[k] = 0

(***************************************************************************)
(* Properties of the speech path.                                          *)
(***************************************************************************)
\* a chunk the device has delivered has not been handed to the recognizer
Behind == forwarded < captured

\* C19: process_audio returns without waiting for the recognition loop:
\* whatever the recognizer does, or does not do, with its own queue, every
\* chunk the device has delivered is handed over in the end.
C19_SinkNeverStalls == Behind ~> ~Behind

\* the recognizer is inside one recognition, two chunks wait in its queue
\* and the capture loop has handed over every chunk of the run
C19_Witness ==
    /\ recPc = "recognize"
    /\ Len(sr_audio_queue) >= 2
    /\ forwarded = MaxChunks
    /\ capPc = "loop"

(***************************************************************************)
(* Properties of the order of teardown.                                    *)
(***************************************************************************)
\* C20 as the specification states it: stop_passthrough closes the streams
\* after the workers have been joined, so no worker is inside a read or a
\* write on a stream that has been stopped or closed.
C20_ClosedAfterJoin ==
    \A w \in Sessions :
        /\ InBlocked(w) => StreamState(input_stream[inst[w]], inStream) = "open"
        /\ OutBlocked(w) => StreamState(output_stream[inst[w]], outStream) = "open"

(***************************************************************************)
(* Properties of the controller's states.                                  *)
(***************************************************************************)
\* the controller is idle: no start_routing or stop_routing call is in
\* progress, no routing thread is alive and is_running is False
Idle ==
    /\ pc[GuiThread] = "idle"
    /\ \A t \in Sessions : ~RtAlive(t)
    /\ ~is_running

\* C21 as the specification states it: the workers are alive in Running and
\* Stopping only, so an idle controller has no capture worker and no
\* playback worker alive.
C21_WorkersOnlyWhileRunning ==
    Idle => \A w \in Sessions : ~InAlive(w) /\ ~OutAlive(w)

\* the capture workers get their turn at the queue; nothing is assumed of
\* the playback workers, of the devices or of the other threads
PushSpec == Spec /\ \A w \in Sessions : WF_vars(InEvict(w) \/ InReput(w))

\* C22: the capture worker never waits on the queue. After the first put
\* found the queue full, one get_nowait and at most one second put end the
\* push, whatever the queue holds and whether or not the playback worker
\* runs: the removal is followed by the second put or by the end of the push,
\* the second put by the end of the push, and a push in progress ends.
C22_PushNeverWaits ==
    /\ [][\A w \in Sessions :
            /\ (inPc[w] = "evict" /\ inPc'[w] # "evict") => inPc'[w] \in {"reput", "loop"}
            /\ (inPc[w] = "reput" /\ inPc'[w] # "reput") => inPc'[w] \in {"loop", "failed"}]_vars
    /\ \A w \in Sessions : Pushing(w) ~> ~Pushing(w)

\* a capture worker has met a full queue and is about to remove a block,
\* and the playback worker has emptied the queue meanwhile
C22_Witness ==
    \E w \in Sessions :
        /\ inPc[w] = "evict"
        /\ audio_queue[inst[w]] = <<>>
        /\ consumed[inst[w]]

\* the samples of one output block of session w
BlockLength(w) == ChunkSize * fmt[w].output_channels

\* C23 as the specification states it: every block pushed on the queue and
\* every block handed to the output stream holds block_size times the output
\* channel count samples, in every session.
C23_FrameLength ==
    \A w \in Sessions :
        /\ inst[w] # None =>
               \A i \in 1..Len(audio_queue[inst[w]]) :
                   Len(audio_queue[inst[w]][i].samples) = BlockLength(w)
        /\ inPc[w] \in {"evict", "reput"} => Len(inData[w].samples) = BlockLength(w)
        /\ outPc[w] \in {"write", "silence"} => Len(outData[w].samples) = BlockLength(w)

(***************************************************************************)
(* Properties of the test stream and of the channel counts.                *)
(***************************************************************************)
\* the output device of session t refuses the test stream at the input
\* device's rate and cannot be opened at its own default rate either
DoublyRejected(t) ==
    /\ fmt[t] # NoFmt
    /\ DeviceList[fmt[t].input_device].defaultSampleRate
           \notin DeviceList[fmt[t].output_device].rates
    /\ DeviceList[fmt[t].output_device].defaultSampleRate
           \notin DeviceList[fmt[t].output_device].rates

\* C24: the test stream is closed before the input or the output stream is
\* opened; and when the output device refuses the test stream at the input's
\* rate and cannot be opened at its own default rate, no output stream and
\* no test stream exists, no worker is started, success is not reported, and
\* once start_passthrough has returned the input stream is not open, the
\* session is not running and the error is reported.
C24_RejectedTwiceLeavesNothing ==
    \A t \in Sessions :
        /\ (inStream[t] # "none" \/ outStream[t] # "none") => testStream[t] # "open"
        /\ DoublyRejected(t) =>
               /\ outStream[t] = "none" /\ testStream[t] = "none"
               /\ inPc[t] = "none" /\ outPc[t] = "none"
               /\ message_queue["success"] = 0
               /\ StartReturned(t) =>
                      /\ inStream[t] # "open"
                      /\ ~pt_is_running[inst[t]]
                      /\ pc[t] # "report_fail" => message_queue["error"] >= 1

\* the speaker's loopback is routed to the busy output device: the test
\* stream and the output stream were refused, the input stream that had
\* been opened is closed, and the failure was reported
C24_Witness ==
    \E t \in Sessions :
        /\ DoublyRejected(t)
        /\ pc[t] = "cl_flag"
        /\ testStream[t] = "none" /\ inStream[t] = "closed" /\ outStream[t] = "none"
        /\ inPc[t] = "none" /\ outPc[t] = "none"
        /\ message_queue["error"] = 1

\* C25 as the specification states it: each side's channel count is the
\* smaller of the device's channel count and 2, and for a pair of devices
\* whose channel counts are not both 1 or 2 no stream is ever opened, the
\* test stream included.
C25_InvalidChannelsOpenNothing ==
    \A t \in Sessions :
        fmt[t] # NoFmt =>
            /\ fmt[t].input_channels = Min(DeviceList[fmt[t].input_device].maxInputChannels, 2)
            /\ fmt[t].output_channels = Min(DeviceList[fmt[t].output_device].maxOutputChannels, 2)
            /\ (fmt[t].input_channels \notin {1, 2} \/ fmt[t].output_channels \notin {1, 2})
                   => testStream[t] = "none" /\ inStream[t] = "none" /\ outStream[t] = "none"

(***************************************************************************)
(* The device catalogue (audio.py 22-71), specified on its own as          *)
(* CatalogSpec: one call of find_device_by_name and one of list_devices on *)
(* DeviceList.  get_loopback_device_info_generator walks the devices in    *)
(* enumeration order and yields the loopback ones; it may raise on         *)
(* reaching device failAt (failAt = 1: at its start; beyond the last       *)
(* device: never).                                                         *)
(***************************************************************************)
\* the outcome of a call that ended in an exception
Raised == -1

\* the device ids the generator yields before device `last`, in order
Enumeration(last) == [i \in 1..(last - 1) |-> i]

IsOutput(d) == DeviceList[d].maxOutputChannels > 0
IsInput(d) == DeviceList[d].maxInputChannels > 0
IsLoopback(d) == DeviceList[d].isLoopbackDevice

\* an exception that leaves the function (a lookup without the handler)
Propagated == Raised

\* audio.py 69-71: `except: pass`, then `return None`
Swallowed == None

\* audio.py 64-71: the loop over the loopback generator from device k on;
\* the first device whose name matches is returned
RECURSIVE ScanLoopback(_, _, _)
ScanLoopback(k, name_fragment, failAt) ==
    IF k > Len(DeviceList) THEN None
    ELSE IF k = failAt THEN Swallowed
    ELSE IF IsLoopback(k) /\ NameMatches(name_fragment, k) THEN k
    ELSE ScanLoopback(k + 1, name_fragment, failAt)

\* AudioPassthrough.find_device_by_name when the loopback generator may
\* raise; without a failure it is find_device_by_name above
lookup_device(name_fragment, device_type, failAt) ==
    IF device_type = "loopback"
    THEN ScanLoopback(1, name_fragment, failAt)
    ELSE find_device_by_name(name_fragment, device_type)

\* audio.py 42-48: the devices appended to loopback_devices before the
\* generator raised; the handler prints and the list is returned as it is
loopback_devices(failAt) ==
    SelectSeq(Enumeration(Min(failAt, Len(DeviceList) + 1)), IsLoopback)

\* AudioPassthrough.list_devices: output, input and loopback devices
list_devices(failAt) ==
    [output_devices |-> SelectSeq(Enumeration(Len(DeviceList) + 1), IsOutput),
     input_devices |-> SelectSeq(Enumeration(Len(DeviceList) + 1), IsInput),
     loopback_devices |-> loopback_devices(failAt)]

\* the fragments and device types the calls are made with
Fragments ==
    { <<"m", "i", "c">>, <<"S", "P", "K">>, <<"s", "p", "k", "l">>, <<"h", "p">>,
      <<"p">>, <<"L">>, <<"x">>, <<>> }

DeviceTypes == {"output", "input", "loopback", "monitor"}

CatalogInputs ==
    { [stage |-> "ready", name_fragment |-> f, device_type |-> ty, failAt |-> k,
       device |-> None,
       lists |-> [output_devices |-> <<>>, input_devices |-> <<>>, loopback_devices |-> <<>>]] :
      f \in Fragments, ty \in DeviceTypes, k \in 1..(Len(DeviceList) + 1) }

CatalogInit ==
    /\ RoutingInit
    /\ limits = DeviceWorkload
    /\ dsp = NoDsp
    /\ catalog \in CatalogInputs
    /\ SinkInit

CatalogFrame ==
    UNCHANGED <<ctlVars, thrVars, ptVars, strVars, fmt, inVars, outVars, framesRead,
                consumed, started, stops, faults, limits, dsp, sinkVars, testStream,
                overflows, written, is_routing, volume_var>>

FindDevice ==
    /\ catalog.stage = "ready"
    /\ catalog' = [catalog EXCEPT
                      !.stage = "found",
                      !.device = lookup_device(catalog.name_fragment, catalog.device_type,
                                               catalog.failAt)]
    /\ CatalogFrame

ListDevices ==
    /\ catalog.stage = "ready"
    /\ catalog' = [catalog EXCEPT !.stage = "listed",
                                  !.lists = list_devices(catalog.failAt)]
    /\ CatalogFrame

CatalogNext ==
    \/ FindDevice
    \/ ListDevices

CatalogSpec == CatalogInit /\ [][CatalogNext]_vars

(***************************************************************************)
(* Properties of the device catalogue.                                     *)
(***************************************************************************)
\* device d supports the requested direction
Supports(d, device_type) ==
    \/ device_type = "output" /\ DeviceList[d].maxOutputChannels > 0
    \/ device_type = "input" /\ DeviceList[d].maxInputChannels > 0
    \/ device_type = "loopback" /\ DeviceList[d].isLoopbackDevice

\* the devices the lookup gets to see for the request in `catalog`: those of
\* the requested direction whose lower-cased name contains the lower-cased
\* fragment and, for a loopback request, that the generator yields before it
\* fails
Candidates ==
    { d \in DeviceIds :
        /\ Supports(d, catalog.device_type)
        /\ Contains(LowerStr(DeviceList[d].name), LowerStr(catalog.name_fragment))
        /\ catalog.device_type = "loopback" => d < catalog.failAt }

\* C28: find_device_by_name returns the first device in enumeration order
\* that supports the requested direction and whose name contains the
\* fragment, upper and lower case taken as equal, and None when there is
\* none; when the loopback enumeration fails before such a device is
\* reached the result is None and no exception leaves the function.
C28_FirstMatchOrNone ==
    catalog.stage = "found" =>
        /\ catalog.device # Raised
        /\ Candidates = {} => catalog.device = None
        /\ Candidates # {} =>
               /\ catalog.device \in Candidates
               /\ \A e \in Candidates : catalog.device <= e

\* the loopback generator fails on reaching the one loopback device whose
\* name matches, and the lookup returns None
C28_Witness ==
    /\ catalog.stage = "found"
    /\ catalog.device_type = "loopback"
    /\ catalog.name_fragment = <<"s", "p", "k", "l">>
    /\ catalog.failAt = 4
    /\ catalog.device = None

\* C29 as the specification states it: when the loopback enumeration fails,
\* at its start or part-way, list_devices returns an empty loopback list and
\* the output and input lists of a listing without failure.
C29_FailedLoopbackListsNothing ==
    (catalog.stage = "listed" /\ catalog.failAt <= Len(DeviceList)) =>
        /\ catalog.lists.loopback_devices = <<>>
        /\ catalog.lists.output_devices = list_devices(Len(DeviceList) + 1).output_devices
        /\ catalog.lists.input_devices = list_devices(Len(DeviceList) + 1).input_devices

(***************************************************************************)
(* Properties of a session in progress.                                    *)
(***************************************************************************)
\* C27: a read that meets an input overflow does not end the capture worker:
\* the worker goes on with the block, which is put on the queue or held for
\* the second put, and the running flags of the session and of the
\* controller are as they were.
C27_OverflowIsNotFatal ==
    [][\A w \in Sessions :
         (overflows' = overflows + 1 /\ framesRead'[w] = framesRead[w] + 1) =>
             /\ inPc'[w] \in {"loop", "evict"}
             /\ inPc'[w] = "loop" =>
                    audio_queue'[inst[w]][Len(audio_queue'[inst[w]])].id = framesRead'[w]
             /\ inPc'[w] = "evict" => inData'[w].id = framesRead'[w]
             /\ pt_is_running' = pt_is_running
             /\ is_running' = is_running]_vars

\* a read has met an overflow, and the capture worker has read every later
\* block and is running still
C27_Witness ==
    \E w \in Sessions :
        /\ overflows = 1
        /\ limits.overflows = 1
        /\ framesRead[w] = limits.frames
        /\ inPc[w] = "reading"
        /\ pt_is_running[inst[w]]

\* C26: once the workers of a session exist, no step changes the rate, the
\* channel counts or the devices the session was opened with, nor the volume
\* multiplier its capture worker applies; a move of the volume slider is
\* such a step.
C26_SessionFormatFixed ==
    [][\A t \in Sessions :
         inPc[t] # "none" =>
             /\ fmt'[t] = fmt[t]
             /\ volume_multiplier(t)' = volume_multiplier(t)]_vars

\* a session started at volume 1.0 is running, its capture worker waits for
\* a block, and the slider has been moved to 2.0 since
C26_Witness ==
    \E t \in Sessions :
        /\ inPc[t] = "reading"
        /\ pt_is_running[inst[t]]
        /\ args[t].volume_multiplier = Vol(1, 1)
        /\ volume_var = Vol(2, 1)

(***************************************************************************)
(* Properties of the window.                                               *)
(***************************************************************************)
\* the window has taken every message, no call of the controlling thread is
\* in progress, and no routing thread is on its way into or out of a session
Settled ==
    /\ FromWindow
    /\ pending = <<>>
    /\ pc[GuiThread] = "idle"
    /\ \A t \in Sessions : pc[t] \in {"unborn", "wait", "done"}

\* C30 as the specification states it: whenever the window has processed
\* every pending message and nothing is in progress, its is_routing equals
\* the is_running of the routing worker, so that a running session can be
\* stopped from the window.
C30_WindowKnowsRouting ==
    Settled => (is_routing = is_running)

(***************************************************************************)
(* Properties of stop_routing and of the end of the routing thread.        *)
(***************************************************************************)
\* the controlling thread is inside a stop_routing call that found
\* is_running True, before its exception handler
InStop == pc[GuiThread] \in {"g_call", "g_sp", "g_join_check", "g_joining", "g_alive"}

\* the controlling thread takes this step
GuiStep == pc'[GuiThread] # pc[GuiThread] \/ sp'[GuiThread] # sp[GuiThread]

\* C31 as the specification states it: a stop_routing call made while
\* is_running is True posts no 'error' and posts 'stopped' once, in the step
\* it returns with, whatever the routing thread's _cleanup does meanwhile.
C31_StopPostsStopped ==
    [][(InStop /\ GuiStep) =>
          /\ message_queue'["error"] = message_queue["error"]
          /\ message_queue'["stopped"] =
                 message_queue["stopped"] + IF pc'[GuiThread] = "idle" THEN 1 ELSE 0]_vars

\* C32 as the specification states it: no two threads are inside
\* stop_passthrough of the same AudioPassthrough at the same time, and no
\* thread is about to stop and close a stream that is closed already.
C32_TeardownOnce ==
    /\ \A t, u \in Threads :
           (t # u /\ sp[t] # "none" /\ sp[u] # "none") => spq[t] # spq[u]
    /\ \A t \in Threads :
           sp[t] = "close" =>
               /\ StreamState(input_stream[spq[t]], inStream) # "closed"
               /\ StreamState(output_stream[spq[t]], outStream) # "closed"

(***************************************************************************)
(* Properties of the blocks written to the output device.                  *)
(***************************************************************************)
\* C33: the blocks from the queue that the playback worker of a session has
\* written are blocks its capture worker pushed, unchanged, in the order
\* they were pushed and none of them twice: their numbers increase strictly
\* and none exceeds the number of blocks read so far.
C33_WrittenInPushOrder ==
    \A w \in Sessions :
        /\ \A i \in 1..Len(written[w]) :
               /\ written[w][i].id \in 1..framesRead[w]
               /\ \E mode \in CastModes : written[w][i] = FrameOf(w, written[w][i].id, mode)
        /\ \A i, j \in 1..Len(written[w]) : i < j => written[w][i].id < written[w][j].id

\* buffer_size + 1 blocks were pushed, the first was evicted from the full
\* queue, and the others were written, in the order of their pushes
C33_Witness ==
    \E w \in Sessions :
        /\ framesRead[w] = BufferSize + 1
        /\ Len(written[w]) = BufferSize
        /\ \A i \in 1..BufferSize : written[w][i].id = i + 1


(***************************************************************************)
(* Properties of the stop calls of the speech path.                        *)
(***************************************************************************)
\* C34 as the specification states it: once stop_capture has been called,
\* the loop of start_capture terminates, and once stop_recognition has been
\* called, the loop of start_recognition terminates, at whatever point of
\* the thread the call was made.
C34_StopEndsLoop ==
    /\ halted.capture ~> (capPc = "done")
    /\ halted.recognition ~> (recPc = "done")


(***************************************************************************)
(* Properties of the end of the routing thread.                            *)
(***************************************************************************)
\* C35 as the specification states it: when a routing thread ends, by
\* whatever path, is_running is False, the controller's passthrough is
\* cleared, and some thread has called stop_passthrough on the session that
\* the routing thread created.
C35_ExitLeavesNothing ==
    [][\A t \in Sessions :
          (pc[t] # "done" /\ pc'[t] = "done") =>
              /\ ~is_running'
              /\ passthrough' = None
              /\ \E u \in Threads : spq'[u] = t]_vars

====
